---- MODULE Spec2Model ----
(***************************************************************************)
(* AWS SSO credentials manager (packages/proc-manager/src/index.tsx, the   *)
(* part of the file from line 831 on): the device-authorization login      *)
(* flow (startDeviceAuthorization, pollForToken, performSSOLoginFlow),      *)
(* refreshProfile, the useDeviceAuth hook and the two orchestrators         *)
(* RefreshProgress (one-shot) and DaemonView (repeating).                   *)
(*                                                                         *)
(* Time is counted in seconds.  Every asynchronous call that is in flight  *)
(* is an element of starts, flows or jobs; one action is one resumption of *)
(* such a call together with the React state updates it makes and the      *)
(* effects those updates trigger (React 19 batches the updates of one      *)
(* callback and runs the effects of the resulting render before the next   *)
(* callback).                                                              *)
(*                                                                         *)
(* The files under ~/.aws (token cache, credentials, config) and the two   *)
(* list components of packages/common (List, MultiSelectList) have their   *)
(* own variables and their own specifications further down.                *)
(***************************************************************************)
EXTENDS Integers, Sequences, FiniteSets, TLC

\* ------------------------------------------------------------------ bounds
NumProfiles == 3        \* length of the selected profile list
MaxTicks == 1           \* daemon interval ticks after the first cycle
MaxLog == 4             \* provider responses recorded for one login flow
MaxSessions == 2        \* startDeviceAuthorization calls in one run
MaxClock == 2           \* seconds the clock of the file calls runs
MaxSections == 3        \* sections of a config file
MaxItems == 4           \* items of a List or a MultiSelectList

\* ------------------------------------------------------- program constants
DefaultDeviceExpiresIn == 600
DefaultInterval == 5
SlowDownIncrement == 5
DefaultTokenExpiresIn == 28800

null == 0

\* the selected profiles, by name, in list order
profiles == [i \in 1..NumProfiles |-> i]
ProfileNames == 1..NumProfiles

\* provider answers to CreateToken: an access token, a response without one,
\* or an exception by name ("other" is any name the code does not test for)
AllResponses == {"token", "empty", "AuthorizationPendingException",
                 "SlowDownException", "ExpiredTokenException",
                 "AccessDeniedException", "other"}
\* (expiresIn, interval) of StartDeviceAuthorization responses, 0 = not given
LoginAuthResponses == {<<31, 0>>, <<17, 5>>, <<12, 3>>}
OrchAuthResponse == <<1, 0>>

NullAuth == [id |-> 0, prof |-> 0, maxWait |-> 0, interval |-> 0]
NoCreds == [p \in ProfileNames |-> FALSE]

VARIABLES
  mode,          \* "refresh" (RefreshProgress), "daemon" (DaemonView), "login" (one flow)
  mounted,       \* the view is mounted (its setState calls take effect)
  results,       \* useState results
  current,       \* RefreshProgress: useState current
  pendingLogin,  \* useState pendingLogin (a profile name or null)
  pendingQueue,  \* DaemonView: useState pendingQueue
  refreshing,    \* DaemonView: useState refreshing
  deviceAuth,    \* useDeviceAuth: useState deviceAuth
  authorizing,   \* useDeviceAuth: useState authorizing
  currentProfileRef, \* useDeviceAuth: currentProfileRef.current
  starts,        \* startDeviceAuthorization calls in flight
  flows,         \* performSSOLoginFlow calls in flight
  jobs,          \* refreshProfile calls / doRefresh loops in flight
  cache,         \* token cache: profile -> a valid (unexpired) token is cached
  credsFile,     \* credentials file: profile -> section written in this run
  ticks,         \* interval ticks so far
  issued,        \* startDeviceAuthorization calls so far (the last call's id)
  log            \* mode "login": the first MaxLog attempts <<response, sleep>>

\* the files and the clock, for the calls that read and write them one by one
VARIABLES
  tokenFiles,    \* SSO_CACHE_DIR: file name -> content
  credsText,     \* CREDENTIALS_PATH: the lines of the file
  configText,    \* CONFIG_PATH: the lines of the file
  now,           \* Date.now() / new Date(), in seconds
  writer,        \* Bun.write calls on a token file that have not finished
  ret            \* the last call that returned, with its result

VARIABLES
  list,            \* List: props items, maxVisible, loading; state cursor, scrollOffset
  multiSelectList  \* MultiSelectList: props items, maxVisible; state cursor, selected,
                   \* scrollOffset

orch == <<mode, mounted, results, current, pendingLogin, pendingQueue, refreshing,
          deviceAuth, authorizing, currentProfileRef, starts, flows, jobs, cache,
          credsFile, ticks, issued, log>>

store == <<tokenFiles, credsText, configText, now, writer, ret>>

ui == <<list, multiSelectList>>

vars == <<mode, mounted, results, current, pendingLogin, pendingQueue, refreshing,
          deviceAuth, authorizing, currentProfileRef, starts, flows, jobs, cache,
          credsFile, ticks, issued, log, tokenFiles, credsText, configText, now, writer,
          ret, list, multiSelectList>>

\* ---------------------------------------------------------------- helpers
\* seconds one CreateToken round trip takes
Latencies == IF mode = "login" THEN {1, 2} ELSE {1}
\* the answers drawn: all of them for one login, one of each kind of
\* PollOutcome under the orchestrators
Responses == IF mode = "login" THEN AllResponses
             ELSE {"token", "empty", "AuthorizationPendingException",
                   "AccessDeniedException"}

\* x || d on numbers: 0 and undefined are both falsy
OrDefault(x, d) == IF x = 0 THEN d ELSE x

\* the ways startDeviceAuthorization can go: both calls answer in full, or
\* RegisterClient / StartDeviceAuthorization answers without a required field
\* or throws
StartOutcomes == {"ok", "register-missing", "register-throws", "auth-missing",
                  "auth-throws"}

\* startDeviceAuthorization's result for a call `id` made for `prof`
DeviceAuthInfo(id, prof, outcome, resp) ==
  IF outcome # "ok" THEN NullAuth
  ELSE [id |-> id, prof |-> prof,
        maxWait |-> OrDefault(resp[1], DefaultDeviceExpiresIn),
        interval |-> OrDefault(resp[2], DefaultInterval)]

\* variant: the loop test taken as <=
LoopGuardInclusive(elapsed, maxWaitMs) == elapsed <= maxWaitMs

\* while (Date.now() - startTime < maxWaitMs)
LoopGuard(elapsed, maxWaitMs) == elapsed < maxWaitMs

\* variant: the slow-down sleep without its increment
SlowDownSleepNoIncrement(interval) == interval

PendingSleep(interval) == interval
SlowDownSleep(interval) == interval + SlowDownIncrement

\* variant: an exception the code does not name is taken as retryable
PollOutcomeRetryUnknown(resp) ==
  CASE resp = "token" -> "return"
    [] resp = "empty" -> "retry"
    [] resp = "ExpiredTokenException" -> "null"
    [] resp = "AccessDeniedException" -> "null"
    [] OTHER -> "sleep"

\* what pollForToken does with one answer: "return" a token, "retry" at once,
\* "sleep" and retry, or "null" (give up)
PollOutcome(resp) ==
  CASE resp = "token" -> "return"
    [] resp = "empty" -> "retry"
    [] resp = "AuthorizationPendingException" -> "sleep"
    [] resp = "SlowDownException" -> "sleep"
    [] resp = "ExpiredTokenException" -> "null"
    [] resp = "AccessDeniedException" -> "null"
    [] OTHER -> "null"

SleepFor(resp, interval) ==
  IF resp = "SlowDownException" THEN SlowDownSleep(interval) ELSE PendingSleep(interval)

\* variant: a message of its own for the expiry
LoginErrorExpired(how) ==
  CASE how = "ok" -> ""
    [] how = "creds" -> "Failed to get credentials"
    [] how = "timeout" -> "Device authorization expired"
    [] OTHER -> "Authorization failed or timed out"

\* variant: one message for every failure
LoginErrorConflated(how) ==
  CASE how = "ok" -> ""
    [] OTHER -> "Authorization failed or timed out"

\* performSSOLoginFlow's error string by the way the flow ended
LoginError(how) ==
  CASE how = "ok" -> ""
    [] how = "creds" -> "Failed to get credentials"
    [] OTHER -> "Authorization failed or timed out"

NewFlow(prof, auth, q) ==
  [id |-> auth.id, prof |-> prof, sfor |-> auth.prof, q |-> q, pc |-> "poll",
   elapsed |-> 0, maxWait |-> auth.maxWait, interval |-> auth.interval,
   dur |-> 0, n |-> 0, token |-> 0, saved |-> FALSE, how |-> "", error |-> "",
   snap |-> NoCreds]

\* the number of CreateToken calls of a flow, counted up to MaxLog + 1
CountAttempt(n) == IF n <= MaxLog THEN n + 1 ELSE n

NewJob(kind, idx) ==
  [kind |-> kind, idx |-> idx, pc |-> "check", need |-> <<>>, snap |-> NoCreds]

\* the component state as one record
View == [results |-> results, current |-> current, pendingLogin |-> pendingLogin,
         pendingQueue |-> pendingQueue, refreshing |-> refreshing,
         deviceAuth |-> deviceAuth, authorizing |-> authorizing,
         currentProfileRef |-> currentProfileRef]

\* ------------------------------------------------------- React effects
\* useDeviceAuth, first effect (deps [pendingLogin]): the pending profile changed
ResetFires(prev, v) ==
  /\ v.pendingLogin # prev.pendingLogin
  /\ v.pendingLogin # v.currentProfileRef

\* useDeviceAuth, second effect (deps [pendingLogin, deviceAuth, authorizing,
\* onLoginComplete]; DaemonView's onLoginComplete changes with pendingQueue)
PollingFires(prev, v) ==
  /\ \/ v.pendingLogin # prev.pendingLogin
     \/ v.deviceAuth # prev.deviceAuth
     \/ v.authorizing # prev.authorizing
     \/ (mode = "daemon" /\ v.pendingQueue # prev.pendingQueue)
  /\ ~(v.pendingLogin = null \/ v.deviceAuth = NullAuth \/ v.authorizing)

\* RefreshProgress, effect (deps [current, profiles, settings, pendingLogin])
RefreshEffectFires(prev, v) ==
  /\ mode = "refresh"
  /\ v.current # prev.current \/ v.pendingLogin # prev.pendingLogin
  /\ ~(v.current >= NumProfiles)
  /\ ~(v.pendingLogin # null)

\* One render of state v after the render of state prev: the effects run on
\* the values of this render, in hook order, and their setState calls are
\* applied together afterwards.  No effect fires in the render that follows.
Render(prev, v) ==
  LET r == ResetFires(prev, v)
      p == PollingFires(prev, v)
  IN [view |-> [v EXCEPT !.currentProfileRef = IF r THEN v.pendingLogin ELSE @,
                         !.deviceAuth = IF r THEN NullAuth ELSE @,
                         !.authorizing = IF p THEN TRUE ELSE IF r THEN FALSE ELSE @],
      start |-> IF r THEN v.pendingLogin ELSE null,
      flow |-> IF p THEN {NewFlow(v.pendingLogin, v.deviceAuth, v.pendingQueue)} ELSE {},
      job |-> IF RefreshEffectFires(prev, v) THEN {NewJob("one", v.current)} ELSE {}]

\* setState on an unmounted component changes nothing
Effective(v) == IF mounted THEN v ELSE View

\* The state after a callback that left the component state v and the calls
\* S, F, J in flight.
Commit(v0, S, F, J) ==
  LET v == Effective(v0)
      r == Render(View, v)
  IN /\ results' = r.view.results
     /\ current' = r.view.current
     /\ pendingLogin' = r.view.pendingLogin
     /\ pendingQueue' = r.view.pendingQueue
     /\ refreshing' = r.view.refreshing
     /\ deviceAuth' = r.view.deviceAuth
     /\ authorizing' = r.view.authorizing
     /\ currentProfileRef' = r.view.currentProfileRef
     /\ flows' = F \cup r.flow
     /\ r.start # null => issued < MaxSessions
     /\ issued' = IF r.start = null THEN issued ELSE issued + 1
     /\ starts' = S \cup (IF r.start = null THEN {}
                          ELSE {[id |-> issued + 1, prof |-> r.start]})
     /\ jobs' = J \cup r.job

\* ------------------------------------------------------- callbacks
Result(name, success, error) == [name |-> name, success |-> success, error |-> error]

\* variant: the index moves on without waiting for the login
OnRefreshResultNoWait(v, name, res) ==
  IF res.needsLogin THEN [v EXCEPT !.pendingLogin = name, !.current = @ + 1]
  ELSE [v EXCEPT !.results = Append(@, Result(name, res.success, "")),
                 !.current = @ + 1]

\* RefreshProgress: refreshProfile(profile).then((result) => ...)
OnRefreshResult(v, name, res) ==
  IF res.needsLogin THEN [v EXCEPT !.pendingLogin = name]
  ELSE [v EXCEPT !.results = Append(@, Result(name, res.success, "")),
                 !.current = @ + 1]

\* RefreshProgress.handleLoginComplete
HandleLoginCompleteRefresh(v, name, success, error) ==
  [v EXCEPT !.results = Append(@, Result(name, success, error)),
            !.pendingLogin = null,
            !.current = @ + 1]

\* DaemonView.processNextLogin, with the pendingQueue q its closure holds
ProcessNextLogin(v, q) ==
  IF Len(q) > 0 THEN [v EXCEPT !.pendingQueue = Tail(q), !.pendingLogin = Head(q)]
  ELSE [v EXCEPT !.pendingLogin = null, !.refreshing = FALSE]

\* DaemonView.handleLoginComplete
HandleLoginCompleteDaemon(v, name, success, q) ==
  ProcessNextLogin([v EXCEPT !.results = Append(@, Result(name, success, ""))], q)

\* DaemonView.doRefresh after `await refreshProfile(profile)` for job j:
\* the rest of the loop body and, behind the last profile, the end of doRefresh
DoRefreshNeed(j, name, res) == IF res.needsLogin THEN Append(j.need, name) ELSE j.need

DoRefreshView(v, j, name, res) ==
  LET v1 == IF res.needsLogin THEN v
            ELSE [v EXCEPT !.results = Append(@, Result(name, res.success, ""))]
      need == DoRefreshNeed(j, name, res)
  IN IF j.idx + 1 < NumProfiles THEN v1
     ELSE IF Len(need) > 0
          THEN [v1 EXCEPT !.pendingQueue = Tail(need), !.pendingLogin = Head(need)]
          ELSE [v1 EXCEPT !.refreshing = FALSE]

DoRefreshJobs(j, name, res) ==
  IF j.idx + 1 < NumProfiles
  THEN {[j EXCEPT !.idx = @ + 1, !.pc = "check", !.snap = NoCreds,
                  !.need = DoRefreshNeed(j, name, res)]}
  ELSE {}

\* refreshProfile of job j has returned res
RefreshReturns(j, res) ==
  LET name == profiles[j.idx + 1] IN
  IF j.kind = "one"
  THEN Commit(OnRefreshResult(View, name, res), starts, flows, jobs \ {j})
  ELSE Commit(DoRefreshView(View, j, name, res), starts, flows,
              (jobs \ {j}) \cup DoRefreshJobs(j, name, res))

\* performSSOLoginFlow of flow f has returned, f's last step leaving it as g:
\* .then((result) => onLoginComplete(pendingLogin, result))
LoginReturns(f, g, how) ==
  IF mode = "login"
  THEN /\ flows' = (flows \ {f}) \cup
                    {[g EXCEPT !.pc = "done", !.how = how, !.error = LoginError(how)]}
       /\ UNCHANGED <<results, current, pendingLogin, pendingQueue, refreshing,
                      deviceAuth, authorizing, currentProfileRef, starts, jobs,
                      issued>>
  ELSE IF mode = "refresh"
  THEN Commit(HandleLoginCompleteRefresh(View, f.prof, how = "ok", LoginError(how)),
              starts, flows \ {f}, jobs)
  ELSE Commit(HandleLoginCompleteDaemon(View, f.prof, how = "ok", f.q),
              starts, flows \ {f}, jobs)

\* ------------------------------------------------------- actions
Put(f, g) == (flows \ {f}) \cup {g}

\* startDeviceAuthorization(pendingLogin).then(setDeviceAuth)
StartReturns(s, outcome) ==
  /\ s \in starts
  /\ Commit([View EXCEPT !.deviceAuth =
                DeviceAuthInfo(s.id, s.prof, outcome, OrchAuthResponse)],
            starts \ {s}, flows, jobs)
  /\ UNCHANGED <<store, ui, mode, mounted, cache, credsFile, ticks, log>>

\* refreshProfile up to the write of writeCredentials: findCachedToken, the
\* expiry test, getCredentialsWithToken (gotCreds: the role-credential call
\* answered) and existing = await parseIniFile(CREDENTIALS_PATH).  The first
\* three touch nothing another call writes but the token cache, where a token
\* once valid stays valid: they commute with the steps of the other calls.
RefreshCheck(j, gotCreds) ==
  /\ j \in jobs /\ j.pc = "check"
  /\ IF ~cache[profiles[j.idx + 1]] \/ ~gotCreds
     THEN RefreshReturns(j, [success |-> FALSE, needsLogin |-> TRUE])
     ELSE /\ jobs' = (jobs \ {j}) \cup {[j EXCEPT !.pc = "write", !.snap = credsFile]}
          /\ UNCHANGED <<results, current, pendingLogin, pendingQueue, refreshing,
                         deviceAuth, authorizing, currentProfileRef, starts, flows,
                         issued>>
  /\ UNCHANGED <<store, ui, mode, mounted, cache, credsFile, ticks, log>>

\* writeCredentials in refreshProfile: await Bun.write(...); return { success: true }
RefreshWriteCreds(j) ==
  /\ j \in jobs /\ j.pc = "write"
  /\ credsFile' = [j.snap EXCEPT ![profiles[j.idx + 1]] = TRUE]
  /\ RefreshReturns(j, [success |-> TRUE, needsLogin |-> FALSE])
  /\ UNCHANGED <<store, ui, mode, mounted, cache, ticks, log>>

\* pollForToken: the loop test holds, CreateToken is sent and answered
PollAttempt(f, resp, lat) ==
  /\ f \in flows /\ f.pc = "poll"
  /\ LoopGuard(f.elapsed, f.maxWait)
  /\ LET g == [f EXCEPT !.elapsed = @ + lat, !.n = CountAttempt(@)]
         o == PollOutcome(resp)
     IN /\ log' = IF mode = "login" /\ Len(log) < MaxLog
                  THEN Append(log, [resp |-> resp,
                                    sleep |-> IF o = "sleep"
                                              THEN SleepFor(resp, f.interval) ELSE 0])
                  ELSE log
        /\ CASE o = "return" ->
                  /\ flows' = Put(f, [g EXCEPT !.pc = "save", !.token = g.n])
                  /\ UNCHANGED <<results, current, pendingLogin, pendingQueue,
                                 refreshing, deviceAuth, authorizing,
                                 currentProfileRef, starts, jobs, issued>>
             [] o = "retry" ->
                  /\ flows' = Put(f, g)
                  /\ UNCHANGED <<results, current, pendingLogin, pendingQueue,
                                 refreshing, deviceAuth, authorizing,
                                 currentProfileRef, starts, jobs, issued>>
             [] o = "sleep" ->
                  /\ flows' = Put(f, [g EXCEPT !.pc = "sleep",
                                               !.dur = SleepFor(resp, f.interval)])
                  /\ UNCHANGED <<results, current, pendingLogin, pendingQueue,
                                 refreshing, deviceAuth, authorizing,
                                 currentProfileRef, starts, jobs, issued>>
             [] OTHER -> LoginReturns(f, g, resp)
  /\ UNCHANGED <<store, ui, mode, mounted, cache, credsFile, ticks>>

\* pollForToken: the loop test fails, return null behind the loop
PollTimeout(f) ==
  /\ f \in flows /\ f.pc = "poll"
  /\ ~LoopGuard(f.elapsed, f.maxWait)
  /\ LoginReturns(f, f, "timeout")
  /\ UNCHANGED <<store, ui, mode, mounted, cache, credsFile, ticks, log>>

\* pollForToken: the setTimeout of a sleep fires, continue
PollWake(f) ==
  /\ f \in flows /\ f.pc = "sleep"
  /\ flows' = Put(f, [f EXCEPT !.pc = "poll", !.elapsed = @ + f.dur, !.dur = 0])
  /\ UNCHANGED <<store, ui, mode, mounted, results, current, pendingLogin, pendingQueue,
                 refreshing, deviceAuth, authorizing, currentProfileRef, starts,
                 jobs, cache, credsFile, ticks, issued, log>>

\* variant: the token is not persisted before the exchange
SaveTokenSkipped(f, written) ==
  /\ f \in flows /\ f.pc = "save"
  /\ cache' = cache
  /\ flows' = Put(f, [f EXCEPT !.pc = "creds", !.saved = written])
  /\ UNCHANGED <<store, ui, mode, mounted, results, current, pendingLogin, pendingQueue,
                 refreshing, deviceAuth, authorizing, currentProfileRef, starts,
                 jobs, credsFile, ticks, issued, log>>

\* variant: a failing cache write ends the login
SaveTokenAborts(f, written) ==
  /\ f \in flows /\ f.pc = "save"
  /\ cache' = IF written THEN [cache EXCEPT ![f.prof] = TRUE] ELSE cache
  /\ flows' = Put(f, IF written THEN [f EXCEPT !.pc = "creds", !.saved = TRUE]
                     ELSE [f EXCEPT !.pc = "done", !.how = "other",
                                    !.error = LoginError("other")])
  /\ UNCHANGED <<store, ui, mode, mounted, results, current, pendingLogin, pendingQueue,
                 refreshing, deviceAuth, authorizing, currentProfileRef, starts,
                 jobs, credsFile, ticks, issued, log>>

\* performSSOLoginFlow: await saveSSOTokenToCache(profile, tokenInfo); a failing
\* mkdir or write (written = FALSE) is swallowed
SaveToken(f, written) ==
  /\ f \in flows /\ f.pc = "save"
  /\ cache' = IF written THEN [cache EXCEPT ![f.prof] = TRUE] ELSE cache
  /\ flows' = Put(f, [f EXCEPT !.pc = "creds", !.saved = written])
  /\ UNCHANGED <<store, ui, mode, mounted, results, current, pendingLogin, pendingQueue,
                 refreshing, deviceAuth, authorizing, currentProfileRef, starts,
                 jobs, credsFile, ticks, issued, log>>

\* performSSOLoginFlow: creds = await getCredentialsWithToken(...) and, in
\* writeCredentials, existing = await parseIniFile(CREDENTIALS_PATH)
GetCredentials(f, gotCreds) ==
  /\ f \in flows /\ f.pc = "creds"
  /\ IF gotCreds
     THEN /\ flows' = Put(f, [f EXCEPT !.pc = "write", !.snap = credsFile])
          /\ UNCHANGED <<results, current, pendingLogin, pendingQueue, refreshing,
                         deviceAuth, authorizing, currentProfileRef, starts, jobs,
                         issued>>
     ELSE LoginReturns(f, f, "creds")
  /\ UNCHANGED <<store, ui, mode, mounted, cache, credsFile, ticks, log>>

\* writeCredentials in performSSOLoginFlow: await Bun.write(...); return { success: true }
LoginWriteCreds(f) ==
  /\ f \in flows /\ f.pc = "write"
  /\ credsFile' = [f.snap EXCEPT ![f.prof] = TRUE]
  /\ LoginReturns(f, [f EXCEPT !.snap = NoCreds], "ok")
  /\ UNCHANGED <<store, ui, mode, mounted, cache, ticks, log>>

\* writeCredentials in refreshProfile: Bun.write throws (the directory is
\* missing, the file is not writable, the disk is full).  Nothing catches it:
\* refreshProfile rejects, the .then callback of RefreshProgress is not
\* called, doRefresh of DaemonView rejects in the middle of its loop.
RefreshWriteFails(j) ==
  /\ j \in jobs /\ j.pc = "write"
  /\ jobs' = jobs \ {j}
  /\ UNCHANGED <<store, ui, mode, mounted, results, current, pendingLogin, pendingQueue,
                 refreshing, deviceAuth, authorizing, currentProfileRef, starts,
                 flows, cache, credsFile, ticks, issued, log>>

\* writeCredentials in performSSOLoginFlow: Bun.write throws; the flow
\* rejects and onLoginComplete is not called
LoginWriteFails(f) ==
  /\ f \in flows /\ f.pc = "write"
  /\ flows' = flows \ {f}
  /\ UNCHANGED <<store, ui, mode, mounted, results, current, pendingLogin, pendingQueue,
                 refreshing, deviceAuth, authorizing, currentProfileRef, starts,
                 jobs, cache, credsFile, ticks, issued, log>>

\* variant: the next cycle is scheduled only behind a cycle without a failure
TickAfterCleanCycle ==
  /\ mode = "daemon" /\ mounted
  /\ ticks < MaxTicks
  /\ jobs = {}
  /\ pendingLogin = null
  /\ \A k \in 1..Len(results) : results[k].success
  /\ ticks' = ticks + 1
  /\ Commit([View EXCEPT !.refreshing = TRUE, !.results = <<>>], starts, flows,
            {NewJob("cycle", 0)})
  /\ UNCHANGED <<store, ui, mode, cache, credsFile, log, mounted>>

\* DaemonView: setInterval(doRefresh, ...) fires; doRefresh runs up to its first
\* await.  A cycle's refreshProfile calls take seconds, the interval is minutes:
\* the cycle before is over.
Tick ==
  /\ mode = "daemon" /\ mounted
  /\ ticks < MaxTicks
  /\ jobs = {}
  /\ ticks' = ticks + 1
  /\ Commit([View EXCEPT !.refreshing = TRUE, !.results = <<>>], starts, flows,
            {NewJob("cycle", 0)})
  /\ UNCHANGED <<store, ui, mode, cache, credsFile, log, mounted>>

\* The user leaves the view: b, q or Escape in RefreshProgress, q or Ctrl-C in
\* DaemonView (setView("menu") unmounts it and clears the interval).
Stop ==
  /\ mode # "login" /\ mounted
  /\ mounted' = FALSE
  /\ UNCHANGED <<store, ui, mode, results, current, pendingLogin, pendingQueue, refreshing,
                 deviceAuth, authorizing, currentProfileRef, starts, flows, jobs,
                 cache, credsFile, ticks, issued, log>>

\* ------------------------------------------------------- the token cache
\* SSOProfile values: two profiles of one sso-session and a legacy profile
\* (no ssoSession) with a start URL of its own
SsoProfiles ==
  {[name |-> "dev", ssoSession |-> "corp", ssoStartUrl |-> "https://a",
    ssoRegion |-> "eu-west-1"],
   [name |-> "prod", ssoSession |-> "corp", ssoStartUrl |-> "https://a",
    ssoRegion |-> "eu-west-1"],
   [name |-> "legacy", ssoStartUrl |-> "https://b", ssoRegion |-> "us-east-1"]}

\* variant: the key is the start URL, session or not
CacheKeyStartUrlOnly(profile) == profile.ssoStartUrl

\* profile.ssoSession ?? profile.ssoStartUrl
CacheKey(profile) ==
  IF "ssoSession" \in DOMAIN profile THEN profile.ssoSession ELSE profile.ssoStartUrl

\* crypto.createHash("sha1").update(cacheKey).digest("hex"): the digest of a
\* key, told from the key itself and equal for equal keys only
Sha1Hex(cacheKey) == <<"sha1", cacheKey>>

\* `${SSO_CACHE_DIR}/${hash}.json`
CacheFile(profile) == Sha1Hex(CacheKey(profile))

CacheFileNames == {CacheFile(p) : p \in SsoProfiles}

\* Date.prototype.toISOString and new Date(string), on whole seconds
ToISOString(t) == <<"iso", t>>
NewDate(iso) == iso[2]

\* a file's content: none (no such file), partial (opened for writing, the
\* text not or not all written), garbage (not JSON), or the JSON text of data
NoFile == [kind |-> "none"]
PartialFile == [kind |-> "partial"]
GarbageFile == [kind |-> "garbage"]
JsonFile(data) == [kind |-> "json", data |-> data]

\* saveSSOTokenToCache: cacheData
CacheData(profile, tokenInfo) ==
  [startUrl |-> profile.ssoStartUrl, region |-> profile.ssoRegion,
   accessToken |-> tokenInfo.accessToken,
   expiresAt |-> ToISOString(tokenInfo.expiresAt)]

\* a string or date property that is there and not empty
Truthy(data, field) == field \in DOMAIN data /\ data[field] # ""

NoToken == [found |-> FALSE]

\* findCachedToken, reading the file as it is: null when the file is
\* missing or does not parse, or lacks accessToken or expiresAt
FindCachedToken(profile) ==
  LET file == tokenFiles[CacheFile(profile)] IN
  IF file.kind # "json" THEN NoToken
  ELSE IF Truthy(file.data, "accessToken") /\ Truthy(file.data, "expiresAt")
       THEN [found |-> TRUE, accessToken |-> file.data.accessToken,
             expiresAt |-> NewDate(file.data.expiresAt)]
       ELSE NoToken

\* variant: a token is still good at the instant it expires
NeedsLoginStrict(cachedToken, t) == ~cachedToken.found \/ cachedToken.expiresAt < t

\* !cachedToken || cachedToken.expiresAt <= new Date()
NeedsLogin(cachedToken, t) == ~cachedToken.found \/ cachedToken.expiresAt <= t

\* checkTokenStatus
CheckTokenStatus(profile) ==
  LET cachedToken == FindCachedToken(profile) IN
  IF NeedsLogin(cachedToken, now) THEN [profile |-> profile, status |-> "expired"]
  ELSE [profile |-> profile, status |-> "valid", expiresAt |-> cachedToken.expiresAt]

\* ------------------------------------------------------- the credentials file
\* The file is a sequence of lines: a comment, a section header [name], or
\* key = value.  A parsed file (ParsedConfig) is the sequence of its sections
\* in key order, each with its entries in key order.
CommentLine == [t |-> "comment"]
SectionLine(name) == [t |-> "section", name |-> name]
PairLine(key, text) == [t |-> "pair", key |-> key, text |-> text]

\* values that hold a "=": stringify writes them as a quoted JSON string
HasEquals == {"tokA==", "tokOld="}

\* ini's encoding of a value on writing, and its decoding on parsing
Safe(value) == [quoted |-> value \in HasEquals, body |-> value]
Unsafe(text) == text.body

Entry(key, value) == [key |-> key, value |-> value]

\* the index of the element of seq named k by `field`, 0 if there is none
IndexOf(seq, field, k) ==
  IF \E i \in 1..Len(seq) : seq[i][field] = k
  THEN CHOOSE i \in 1..Len(seq) : seq[i][field] = k /\ \A h \in 1..(i - 1) : seq[h][field] # k
  ELSE 0

\* obj[key] = value on an object kept as a sequence: an own key keeps its place
SetEntry(entries, key, value) ==
  LET i == IndexOf(entries, "key", key) IN
  IF i = 0 THEN Append(entries, Entry(key, value))
  ELSE [entries EXCEPT ![i] = Entry(key, value)]

SetSection(config, name, entries) ==
  LET i == IndexOf(config, "name", name) IN
  IF i = 0 THEN Append(config, [name |-> name, entries |-> entries])
  ELSE [config EXCEPT ![i] = [name |-> name, entries |-> entries]]

\* parseIni, line by line: cur is the section the pairs go to
RECURSIVE ParseLines(_, _, _)
ParseLines(lines, config, cur) ==
  IF lines = <<>> THEN config
  ELSE LET line == Head(lines) IN
       CASE line.t = "comment" -> ParseLines(Tail(lines), config, cur)
         [] line.t = "section" ->
              ParseLines(Tail(lines),
                         IF IndexOf(config, "name", line.name) = 0
                         THEN Append(config, [name |-> line.name, entries |-> <<>>])
                         ELSE config,
                         line.name)
         [] OTHER ->
              LET i == IndexOf(config, "name", cur) IN
              ParseLines(Tail(lines),
                         [config EXCEPT ![i].entries =
                            SetEntry(@, line.key, Unsafe(line.text))],
                         cur)

ParseIni(lines) == ParseLines(lines, <<>>, "")

\* stringifyIni: every section's header followed by its entries
RECURSIVE StringifyIni(_)
StringifyIni(config) ==
  IF config = <<>> THEN <<>>
  ELSE LET section == Head(config) IN
       <<SectionLine(section.name)>>
         \o [i \in 1..Len(section.entries) |->
               PairLine(section.entries[i].key, Safe(section.entries[i].value))]
         \o StringifyIni(Tail(config))

\* AWSCredentials as getCredentialsWithToken returns them: sessionToken is
\* optional
CredentialSets ==
  {[accessKeyId |-> "AKIA1", secretAccessKey |-> "sec/1+", sessionToken |-> "tokA=="],
   [accessKeyId |-> "AKIA2", secretAccessKey |-> "sec2"]}

\* variant: the session token is never written
CredentialEntriesNoToken(credentials) ==
  <<Entry("aws_access_key_id", credentials.accessKeyId),
    Entry("aws_secret_access_key", credentials.secretAccessKey)>>

\* the section writeCredentials builds
CredentialEntries(credentials) ==
  <<Entry("aws_access_key_id", credentials.accessKeyId),
    Entry("aws_secret_access_key", credentials.secretAccessKey)>>
    \o (IF Truthy(credentials, "sessionToken")
        THEN <<Entry("aws_session_token", credentials.sessionToken)>> ELSE <<>>)

\* variant: the new keys are set in the section that is there
WriteCredentialsMerged(lines, profileName, credentials) ==
  LET existing == ParseIni(lines)
      i == IndexOf(existing, "name", profileName)
      section == IF i = 0 THEN <<>> ELSE existing[i].entries
      two == SetEntry(SetEntry(section, "aws_access_key_id", credentials.accessKeyId),
                      "aws_secret_access_key", credentials.secretAccessKey)
  IN StringifyIni(SetSection(existing, profileName,
       IF "sessionToken" \in DOMAIN credentials
       THEN SetEntry(two, "aws_session_token", credentials.sessionToken)
       ELSE two))

\* writeCredentials: the text written by Bun.write for the text read
WriteCredentials(lines, profileName, credentials) ==
  StringifyIni(SetSection(ParseIni(lines), profileName, CredentialEntries(credentials)))

\* the section of a parsed file, <<>> if there is none
SectionOf(config, name) ==
  LET i == IndexOf(config, "name", name) IN
  IF i = 0 THEN <<>> ELSE config[i].entries

HasSection(config, name) == IndexOf(config, "name", name) # 0

SectionNames(config) == {config[i].name : i \in 1..Len(config)}

\* the value of key in a section, "" if it has none
ValueOf(entries, key) ==
  LET i == IndexOf(entries, "key", key) IN
  IF i = 0 THEN "" ELSE entries[i].value

Keys(entries) == {entries[i].key : i \in 1..Len(entries)}

\* ------------------------------------------------------- the config file
\* A section name of the config file, by what startsWith and replace make of
\* it: "profile " + id, "default", "sso-session " + id, or any other name
ProfileSection(id) == [kind |-> "profile", id |-> id]
DefaultSection == [kind |-> "default", id |-> "default"]
SessionSection(id) == [kind |-> "sso-session", id |-> id]
OtherSection(id) == [kind |-> "other", id |-> id]

\* section === "default" ? "default" : section.replace("profile ", "")
ProfileName(section) == IF section.kind = "default" THEN "default" ELSE section.id

\* x || d on strings: "" and undefined are both falsy
OrElse(x, d) == IF x = "" THEN d ELSE x

\* variant of the test below: the inline form needs its sso_region
PushedStrict(section, config) ==
  LET values == section.entries IN
  /\ section.name.kind \in {"profile", "default"}
  /\ IF ValueOf(values, "sso_session") # ""
     THEN /\ HasSection(config, SessionSection(ValueOf(values, "sso_session")))
          /\ ValueOf(values, "sso_account_id") # ""
          /\ ValueOf(values, "sso_role_name") # ""
     ELSE /\ ValueOf(values, "sso_start_url") # ""
          /\ ValueOf(values, "sso_account_id") # ""
          /\ ValueOf(values, "sso_role_name") # ""
          /\ ValueOf(values, "sso_region") # ""

\* discoverProfiles, second loop: the test under which a section is pushed
Pushed(section, config) ==
  LET values == section.entries IN
  /\ section.name.kind \in {"profile", "default"}
  /\ IF ValueOf(values, "sso_session") # ""
     THEN /\ HasSection(config, SessionSection(ValueOf(values, "sso_session")))
          /\ ValueOf(values, "sso_account_id") # ""
          /\ ValueOf(values, "sso_role_name") # ""
     ELSE /\ ValueOf(values, "sso_start_url") # ""
          /\ ValueOf(values, "sso_account_id") # ""
          /\ ValueOf(values, "sso_role_name") # ""

\* discoverProfiles, second loop: the profile pushed for a section (region
\* "" stands for undefined)
PushedProfile(section, config) ==
  LET values == section.entries IN
  IF ValueOf(values, "sso_session") # ""
  THEN LET session == SectionOf(config, SessionSection(ValueOf(values, "sso_session"))) IN
       [name |-> ProfileName(section.name),
        ssoStartUrl |-> OrElse(ValueOf(session, "sso_start_url"), ""),
        ssoAccountId |-> ValueOf(values, "sso_account_id"),
        ssoRoleName |-> ValueOf(values, "sso_role_name"),
        ssoRegion |-> OrElse(ValueOf(session, "sso_region"), "us-east-1"),
        region |-> ValueOf(values, "region"),
        ssoSession |-> ValueOf(values, "sso_session")]
  ELSE [name |-> ProfileName(section.name),
        ssoStartUrl |-> ValueOf(values, "sso_start_url"),
        ssoAccountId |-> ValueOf(values, "sso_account_id"),
        ssoRoleName |-> ValueOf(values, "sso_role_name"),
        ssoRegion |-> OrElse(ValueOf(values, "sso_region"), "us-east-1"),
        region |-> ValueOf(values, "region")]

\* discoverProfiles on the parsed config: the sections in the order of
\* Object.entries, which is the order of the file
DiscoverProfiles(config) ==
  LET kept == SelectSeq(config, LAMBDA section : Pushed(section, config)) IN
  [i \in 1..Len(kept) |-> PushedProfile(kept[i], config)]

\* ------------------------------------------------------- provider responses
\* A response of the provider is a record of the fields it carries: a field
\* it leaves out is not in the record.
\* response.field || d: the default for a field left out and for 0
FieldOr(response, field, d) ==
  IF field \in DOMAIN response /\ response[field] # 0 THEN response[field] ELSE d

\* StartDeviceAuthorization responses, by expiresIn and interval
AuthResponses ==
  {[verificationUriComplete |-> "https://device"]}
    \cup {[verificationUriComplete |-> "https://device", expiresIn |-> e] :
            e \in {0, 1, 600, 900}}
    \cup {[verificationUriComplete |-> "https://device", interval |-> i] :
            i \in {0, 1, 5}}
    \cup {[verificationUriComplete |-> "https://device", expiresIn |-> e, interval |-> i] :
            e \in {0, 1, 600, 900}, i \in {0, 1, 5}}

\* CreateToken responses that carry an access token, by expiresIn
TokenResponses ==
  {[accessToken |-> "t1"]}
    \cup {[accessToken |-> "t1", expiresIn |-> e] : e \in {0, 1, 3600, 28800}}

\* startDeviceAuthorization: expiresAt and interval of the DeviceAuthInfo
DeviceAuthTimes(authResponse, t) ==
  [expiresAt |-> t + FieldOr(authResponse, "expiresIn", DefaultDeviceExpiresIn),
   interval |-> FieldOr(authResponse, "interval", DefaultInterval)]

\* pollForToken: the TokenInfo returned for a response with an access token
TokenInfoOf(tokenResponse, t) ==
  [accessToken |-> tokenResponse.accessToken,
   expiresAt |-> t + FieldOr(tokenResponse, "expiresIn", DefaultTokenExpiresIn)]

\* ------------------------------------------------------- calls on the files
NoCall == [op |-> "none"]

\* what getCredentialsWithToken can come to: the call throws, the response
\* has no roleCredentials, or it has them
ExchangeOutcomes ==
  {[kind |-> "throws"], [kind |-> "no-role-credentials"]}
    \cup {[kind |-> "credentials", credentials |-> c] : c \in CredentialSets}

\* variant: the role-credential call is made whatever the cache holds
RefreshProfileNoCheck(profile, exchange) ==
  IF exchange.kind # "credentials"
  THEN [success |-> FALSE, needsLogin |-> TRUE,
        calls |-> <<"findCachedToken", "GetRoleCredentials">>]
  ELSE [success |-> TRUE, needsLogin |-> FALSE,
        calls |-> <<"findCachedToken", "GetRoleCredentials", "writeCredentials">>]

\* refreshProfile: its result (needsLogin left out is false) and the calls it
\* makes, in order
RefreshProfile(profile, exchange) ==
  LET cachedToken == FindCachedToken(profile) IN
  IF NeedsLogin(cachedToken, now)
  THEN [success |-> FALSE, needsLogin |-> TRUE, calls |-> <<"findCachedToken">>]
  ELSE IF exchange.kind # "credentials"
  THEN [success |-> FALSE, needsLogin |-> TRUE,
        calls |-> <<"findCachedToken", "GetRoleCredentials">>]
  ELSE [success |-> TRUE, needsLogin |-> FALSE,
        calls |-> <<"findCachedToken", "GetRoleCredentials", "writeCredentials">>]

\* time passes
Advance ==
  /\ now < MaxClock
  /\ now' = now + 1
  /\ UNCHANGED <<orch, ui, configText, tokenFiles, credsText, writer, ret>>

\* await findCachedToken(profile), by any caller
CallFindCachedToken(profile) ==
  /\ ret' = [op |-> "findCachedToken", profile |-> profile.name, at |-> now,
             file |-> tokenFiles[CacheFile(profile)],
             value |-> FindCachedToken(profile)]
  /\ UNCHANGED <<orch, ui, configText, tokenFiles, credsText, now, writer>>

\* await checkTokenStatus(profile)
CallCheckTokenStatus(profile) ==
  /\ ret' = [op |-> "checkTokenStatus", profile |-> profile.name, at |-> now,
             token |-> FindCachedToken(profile),
             value |-> CheckTokenStatus(profile)]
  /\ UNCHANGED <<orch, ui, configText, tokenFiles, credsText, now, writer>>

\* await refreshProfile(profile), the role-credential call coming to exchange
CallRefreshProfile(profile, exchange) ==
  LET r == RefreshProfile(profile, exchange) IN
  /\ credsText' = IF r.success
                  THEN WriteCredentials(credsText, profile.name, exchange.credentials)
                  ELSE credsText
  /\ ret' = [op |-> "refreshProfile", profile |-> profile.name, at |-> now,
             token |-> FindCachedToken(profile), exchange |-> exchange,
             before |-> credsText, value |-> r]
  /\ UNCHANGED <<orch, ui, configText, tokenFiles, now, writer>>

\* await parseIniFile(CREDENTIALS_PATH)
CallParseIniFile ==
  /\ ret' = [op |-> "parseIniFile", value |-> ParseIni(credsText)]
  /\ UNCHANGED <<orch, ui, configText, tokenFiles, credsText, now, writer>>

\* await discoverProfiles()
CallDiscoverProfiles ==
  /\ ret' = [op |-> "discoverProfiles", value |-> DiscoverProfiles(ParseIni(configText))]
  /\ UNCHANGED <<orch, ui, tokenFiles, credsText, configText, now, writer>>

\* await startDeviceAuthorization(profile), both provider calls answering
CallStartDeviceAuthorization(authResponse) ==
  /\ ret' = [op |-> "startDeviceAuthorization", at |-> now, response |-> authResponse,
             value |-> DeviceAuthTimes(authResponse, now)]
  /\ UNCHANGED <<orch, ui, tokenFiles, credsText, configText, now, writer>>

\* await pollForToken(profile, deviceAuth), CreateToken answering with a token
CallPollForToken(tokenResponse) ==
  /\ ret' = [op |-> "pollForToken", at |-> now, response |-> tokenResponse,
             value |-> TokenInfoOf(tokenResponse, now)]
  /\ UNCHANGED <<orch, ui, tokenFiles, credsText, configText, now, writer>>

\* saveSSOTokenToCache up to the point where Bun.write has opened the file
\* (opened = FALSE: mkdir or the open throws, which is swallowed): the file is
\* there, its text not yet.  One save at a time.
SaveBegin(profile, tokenInfo, opened) ==
  /\ writer = {}
  /\ IF opened
     THEN /\ tokenFiles' = [tokenFiles EXCEPT ![CacheFile(profile)] = PartialFile]
          /\ writer' = {[profile |-> profile, tokenInfo |-> tokenInfo]}
          /\ ret' = ret
     ELSE /\ ret' = [op |-> "saveSSOTokenToCache", profile |-> profile.name,
                     tokenInfo |-> tokenInfo, written |-> FALSE]
          /\ UNCHANGED <<tokenFiles, writer>>
  /\ UNCHANGED <<orch, ui, configText, credsText, now>>

\* saveSSOTokenToCache: Bun.write has written the text, chmod, return
SaveEnd(w) ==
  /\ w \in writer
  /\ tokenFiles' = [tokenFiles EXCEPT ![CacheFile(w.profile)] =
                      JsonFile(CacheData(w.profile, w.tokenInfo))]
  /\ writer' = writer \ {w}
  /\ ret' = [op |-> "saveSSOTokenToCache", profile |-> w.profile.name,
             tokenInfo |-> w.tokenInfo, written |-> TRUE]
  /\ UNCHANGED <<orch, ui, configText, credsText, now>>

\* ------------------------------------------------------- specifications
Idle ==
  /\ mounted = TRUE
  /\ results = <<>>
  /\ current = 0
  /\ pendingLogin = null
  /\ pendingQueue = <<>>
  /\ deviceAuth = NullAuth
  /\ authorizing = FALSE
  /\ currentProfileRef = null
  /\ starts = {}
  /\ credsFile = NoCreds
  /\ ticks = 0
  /\ issued = 0
  /\ log = <<>>

\* the files untouched: no token file, no credentials file
\* no List and no MultiSelectList on the screen
NoList == [items |-> <<>>, maxVisible |-> 0, loading |-> FALSE, cursor |-> 0,
           scrollOffset |-> 0]
NoMultiSelectList == [items |-> <<>>, maxVisible |-> 0, cursor |-> 0, selected |-> {},
                      scrollOffset |-> 0]
UiIdle ==
  /\ list = NoList
  /\ multiSelectList = NoMultiSelectList

StoreIdle ==
  /\ tokenFiles = [file \in CacheFileNames |-> NoFile]
  /\ credsText = <<>>
  /\ configText = <<>>
  /\ now = 0
  /\ writer = {}
  /\ ret = NoCall

\* RefreshProgress or DaemonView just mounted: the first effect has called
\* refreshProfile(profiles[0]) resp. doRefresh()
Init ==
  /\ mode \in {"refresh", "daemon"}
  /\ UiIdle
  /\ Idle
  /\ StoreIdle
  /\ refreshing = (mode = "daemon")
  /\ flows = {}
  /\ jobs = {NewJob(IF mode = "refresh" THEN "one" ELSE "cycle", 0)}
  /\ cache \in IF mode = "refresh" THEN [ProfileNames -> BOOLEAN]
               ELSE {[p \in ProfileNames |-> FALSE]}

Next ==
  \/ \E s \in starts, o \in StartOutcomes : StartReturns(s, o)
  \/ \E j \in jobs, ok \in BOOLEAN : RefreshCheck(j, ok)
  \/ \E j \in jobs : RefreshWriteCreds(j)
  \/ \E f \in flows, r \in Responses, l \in Latencies : PollAttempt(f, r, l)
  \/ \E f \in flows : PollTimeout(f)
  \/ \E f \in flows : PollWake(f)
  \/ \E f \in flows, ok \in BOOLEAN : SaveToken(f, ok)
  \/ \E f \in flows, ok \in BOOLEAN : GetCredentials(f, ok)
  \/ \E f \in flows : LoginWriteCreds(f)
  \/ Tick
  \/ Stop

Spec == Init /\ [][Next]_vars

\* DaemonView just mounted, every profile but the second with a valid token
\* in the cache
InitDaemon ==
  /\ mode = "daemon"
  /\ UiIdle
  /\ Idle
  /\ StoreIdle
  /\ refreshing = TRUE
  /\ flows = {}
  /\ jobs = {NewJob("cycle", 0)}
  /\ cache = [p \in ProfileNames |-> p # profiles[2]]

DaemonSpec == InitDaemon /\ [][Next]_vars

\* the orchestrators on a credentials file whose write may fail
NextFailing ==
  \/ Next
  \/ \E j \in jobs : RefreshWriteFails(j)
  \/ \E f \in flows : LoginWriteFails(f)

FailingSpec == Init /\ [][NextFailing]_vars

\* One login: performSSOLoginFlow(profile, deviceAuth) for the first profile and
\* a device authorization the provider has just issued
InitLogin ==
  /\ mode = "login"
  /\ UiIdle
  /\ Idle
  /\ StoreIdle
  /\ refreshing = FALSE
  /\ jobs = {}
  /\ cache = [p \in ProfileNames |-> FALSE]
  /\ \E resp \in LoginAuthResponses :
       flows = {NewFlow(profiles[1], DeviceAuthInfo(1, profiles[1], "ok", resp), <<>>)}

NextLogin ==
  \/ \E f \in flows, r \in Responses, l \in Latencies : PollAttempt(f, r, l)
  \/ \E f \in flows : PollTimeout(f)
  \/ \E f \in flows : PollWake(f)
  \/ \E f \in flows, ok \in BOOLEAN : SaveToken(f, ok)
  \/ \E f \in flows, ok \in BOOLEAN : GetCredentials(f, ok)
  \/ \E f \in flows : LoginWriteCreds(f)

LoginSpec == InitLogin /\ [][NextLogin]_vars /\ WF_vars(NextLogin)

\* One login, with a token cache that cannot be read: the file of the
\* session key is missing, is not JSON or has no access token.  Anybody may
\* look a token up at any moment.
InitLoginCache ==
  /\ mode = "login"
  /\ UiIdle
  /\ Idle
  /\ refreshing = FALSE
  /\ jobs = {}
  /\ cache = [p \in ProfileNames |-> FALSE]
  /\ \E resp \in LoginAuthResponses :
       flows = {NewFlow(profiles[1], DeviceAuthInfo(1, profiles[1], "ok", resp), <<>>)}
  /\ \E a \in {NoFile, GarbageFile,
               JsonFile([startUrl |-> "https://a", region |-> "eu-west-1",
                         expiresAt |-> ToISOString(1)])} :
       tokenFiles = [file \in CacheFileNames |->
                       IF file = Sha1Hex("corp") THEN a ELSE NoFile]
  /\ credsText = <<>>
  /\ configText = <<>>
  /\ now = 0
  /\ writer = {}
  /\ ret = NoCall

NextLoginCache ==
  \/ NextLogin
  \/ \E p \in {q \in SsoProfiles : q.name = "dev"} : CallFindCachedToken(p)

LoginCacheSpec == InitLoginCache /\ [][NextLoginCache]_vars

\* ------------------------------------------------------- specifications of the files
\* token files as they may be found: of the session key, none, one that is
\* not JSON, one without an access token, one with a token that expires at 1;
\* of the legacy profile's key, none or one with a token that expires at 2
TokenFilesFound ==
  {[file \in CacheFileNames |->
      IF file = Sha1Hex("corp") THEN a ELSE b] :
     a \in {NoFile, GarbageFile,
            JsonFile([startUrl |-> "https://a", region |-> "eu-west-1",
                      expiresAt |-> ToISOString(1)]),
            JsonFile([startUrl |-> "https://a", region |-> "eu-west-1",
                      accessToken |-> "t0", expiresAt |-> ToISOString(1)])},
     b \in {NoFile,
            JsonFile([startUrl |-> "https://b", region |-> "us-east-1",
                      accessToken |-> "t9", expiresAt |-> ToISOString(2)])}}

\* credentials files as they may be found: none, or one written by hand with
\* comments, a section of dev (with a key of its own, and continued further
\* down) and a section of somebody else
CredsTextsFound ==
  {<<>>,
   <<CommentLine,
     SectionLine("dev"),
     PairLine("aws_access_key_id", [quoted |-> FALSE, body |-> "AKIA0"]),
     PairLine("aws_secret_access_key", [quoted |-> FALSE, body |-> "sec0"]),
     PairLine("aws_session_token", [quoted |-> FALSE, body |-> "tokOld="]),
     SectionLine("other"),
     PairLine("aws_access_key_id", [quoted |-> FALSE, body |-> "AKIA9"]),
     PairLine("aws_session_token", [quoted |-> FALSE, body |-> "tokOld="]),
     CommentLine,
     SectionLine("dev"),
     PairLine("region", [quoted |-> FALSE, body |-> "eu-west-1"])>>}

OrchIdle ==
  /\ Idle
  /\ refreshing = FALSE
  /\ flows = {}
  /\ jobs = {}
  /\ cache = [p \in ProfileNames |-> FALSE]

\* the calls that read the token cache and read and write the credentials file
InitCreds ==
  /\ mode = "creds"
  /\ UiIdle
  /\ OrchIdle
  /\ tokenFiles \in TokenFilesFound
  /\ credsText \in CredsTextsFound
  /\ configText = <<>>
  /\ now = 0
  /\ writer = {}
  /\ ret = NoCall

NextCreds ==
  \/ Advance
  \/ \E p \in SsoProfiles : CallFindCachedToken(p)
  \/ \E p \in SsoProfiles : CallCheckTokenStatus(p)
  \/ \E p \in SsoProfiles, x \in ExchangeOutcomes : CallRefreshProfile(p, x)
  \/ CallParseIniFile

CredsSpec == InitCreds /\ [][NextCreds]_vars

\* what pollForToken hands to saveSSOTokenToCache: a token that expires some
\* time from now
TokenLifetimes == {1, 2}
TokenInfos ==
  {[accessToken |-> a, expiresAt |-> now + l] : a \in {"t1", "t2"}, l \in TokenLifetimes}

\* saves of tokens to the cache, and readers of the cache at any moment
InitCache ==
  /\ mode = "cache"
  /\ UiIdle
  /\ OrchIdle
  /\ tokenFiles \in TokenFilesFound
  /\ credsText = <<>>
  /\ configText = <<>>
  /\ now = 0
  /\ writer = {}
  /\ ret = NoCall

NextCache ==
  \/ Advance
  \/ \E p \in SsoProfiles, tokenInfo \in TokenInfos, opened \in BOOLEAN :
       SaveBegin(p, tokenInfo, opened)
  \/ \E w \in writer : SaveEnd(w)
  \/ \E p \in SsoProfiles : CallFindCachedToken(p)

CacheSpec == InitCache /\ [][NextCache]_vars


\* a section of the config file as it is written: header and pairs
Block(name, pairs) ==
  <<SectionLine(name)>>
    \o [i \in 1..Len(pairs) |-> PairLine(pairs[i][1], Safe(pairs[i][2]))]

\* the sections a config file is made of here: two session blocks (one with
\* start URL and region, one with neither), profiles that refer to them, to a
\* session that is not there, or carry their values inline, in full or in
\* part, a [default] and a [profile default] section, and a section that is
\* no profile
ConfigBlocks ==
  {Block(SessionSection("corp"),
         <<<<"sso_start_url", "https://a">>, <<"sso_region", "eu-west-1">>>>),
   Block(SessionSection("bare"), <<<<"sso_registration_scopes", "sso:account:access">>>>),
   Block(ProfileSection("a"),
         <<<<"sso_session", "corp">>, <<"sso_account_id", "111">>,
           <<"sso_role_name", "Admin">>, <<"region", "eu-west-1">>>>),
   Block(ProfileSection("b"),
         <<<<"sso_session", "bare">>, <<"sso_account_id", "111">>,
           <<"sso_role_name", "Admin">>>>),
   Block(ProfileSection("c"),
         <<<<"sso_session", "gone">>, <<"sso_start_url", "https://b">>,
           <<"sso_account_id", "222">>, <<"sso_role_name", "Dev">>,
           <<"sso_region", "us-west-2">>>>),
   Block(ProfileSection("d"),
         <<<<"sso_start_url", "https://b">>, <<"sso_account_id", "222">>,
           <<"sso_role_name", "Dev">>>>),
   Block(DefaultSection,
         <<<<"sso_start_url", "https://b">>, <<"sso_account_id", "222">>,
           <<"sso_role_name", "Dev">>, <<"sso_region", "us-west-2">>>>),
   Block(ProfileSection("default"),
         <<<<"sso_start_url", "https://a">>, <<"sso_account_id", "111">>,
           <<"sso_role_name", "Admin">>, <<"sso_region", "eu-west-1">>>>),
   Block(ProfileSection("e"),
         <<<<"sso_start_url", "https://b">>, <<"sso_account_id", "222">>,
           <<"sso_region", "us-west-2">>>>),
   Block(ProfileSection("f"),
         <<<<"sso_session", "corp">>, <<"sso_role_name", "Admin">>>>),
   Block(OtherSection("services"),
         <<<<"sso_start_url", "https://b">>, <<"sso_account_id", "222">>,
           <<"sso_role_name", "Dev">>, <<"sso_region", "us-west-2">>>>)}

RECURSIVE Concat(_)
Concat(blocks) ==
  IF blocks = <<>> THEN <<>> ELSE Head(blocks) \o Concat(Tail(blocks))

ConfigTextsFound ==
  {Concat(blocks) : blocks \in UNION {[1..n -> ConfigBlocks] : n \in 0..MaxSections}}

\* discoverProfiles on any config file
InitDiscover ==
  /\ mode = "discover"
  /\ UiIdle
  /\ OrchIdle
  /\ tokenFiles = [file \in CacheFileNames |-> NoFile]
  /\ credsText = <<>>
  /\ configText \in ConfigTextsFound
  /\ now = 0
  /\ writer = {}
  /\ ret = NoCall

NextDiscover == CallDiscoverProfiles

DiscoverSpec == InitDiscover /\ [][NextDiscover]_vars

\* ------------------------------------------------------- one login flow
Pending == "AuthorizationPendingException"
SlowDown == "SlowDownException"
TerminalErrors == {"ExpiredTokenException", "AccessDeniedException", "other"}

\* slow-down answers among the first i recorded attempts
SlowDownsUpTo(i) == Cardinality({k \in 1..i : log[k].resp = SlowDown})

LogResponses == [k \in 1..Len(log) |-> log[k].resp]
LogSleeps == [k \in 1..Len(log) |-> log[k].sleep]

\* C1: after k slow-down answers every later sleep of the polling session lasts
\* base + 5 * k seconds: the sleep behind each pending or slow-down answer is
\* the session's interval plus 5 s for every slow-down answer so far.
C1_SlowDownSticky ==
  \A f \in flows : \A i \in 1..Len(log) :
    log[i].resp \in {Pending, SlowDown} =>
      log[i].sleep = f.interval + SlowDownIncrement * SlowDownsUpTo(i)

\* C6: pollForToken always terminates and starts no token-exchange attempt once
\* the time since its start has reached the device authorization's expiry: a
\* step in which a polling flow's CreateToken call is made begins before the
\* expiry, and every flow ends.
C6_PollTerminates ==
  /\ [][\A f \in flows, g \in flows' :
          (f.pc = "poll" /\ g.elapsed > f.elapsed) => f.elapsed < f.maxWait]_vars
  /\ <>(\A f \in flows : f.pc = "done")

\* a flow that ran into the expiry between two attempts, after a sleep that
\* ended behind it
C6_Witness ==
  \E f \in flows : /\ f.pc = "done" /\ f.how = "timeout"
                   /\ f.n >= 3 /\ f.elapsed > f.maxWait

\* C7: for the answers pending, pending, slow-down, token and a base interval
\* of 5 s there are exactly four attempts, the sleeps between them are 5 s, 5 s
\* and 10 s, and the token returned is that of the fourth attempt.
C7_Backoff ==
  \A f \in flows :
    (f.interval = 5 /\ LogResponses = <<Pending, Pending, SlowDown, "token">>) =>
      /\ LogSleeps = <<5, 5, 10, 0>>
      /\ f.n = 4
      /\ f.token = 4
      /\ f.pc \in {"save", "creds", "write", "done"}

C7_Witness ==
  \E f \in flows : /\ f.interval = 5 /\ f.pc = "done" /\ f.how = "ok"
                   /\ LogResponses = <<Pending, Pending, SlowDown, "token">>

\* C8: once an attempt is answered with expired, access denied or an exception
\* the code does not name, the flow has ended in failure: no sleep follows the
\* answer, no later attempt is made, and neither the token cache nor the
\* credentials file holds anything for the profile.
C8_TerminalError ==
  \A f \in flows :
    (Len(log) > 0 /\ log[Len(log)].resp \in TerminalErrors) =>
      /\ f.pc = "done" /\ f.how = log[Len(log)].resp /\ f.error # ""
      /\ log[Len(log)].sleep = 0
      /\ f.n = Len(log)
      /\ f.token = 0
      /\ ~cache[f.prof] /\ ~credsFile[f.prof]

\* the third attempt is answered with an exception the code does not name
C8_Witness ==
  \E f \in flows : /\ f.pc = "done" /\ f.how = "other"
                   /\ Len(log) = 3 /\ log[3].resp = "other"
                   /\ log[1].resp = SlowDown

\* C9 as stated: a flow that ran into the expiry ends with a result the caller
\* can tell from the result of a denied authorization and of an unknown error.
C9_ExpiredDistinct ==
  \A f \in flows :
    (f.pc = "done" /\ f.how = "timeout") =>
      /\ f.error # LoginError("AccessDeniedException")
      /\ f.error # LoginError("other")

\* C9 amended: a flow that ran into the expiry ends, at or behind the expiry and
\* with nothing written, with the failure "Authorization failed or timed out",
\* the one a denied authorization gives; it differs from success and from
\* "Failed to get credentials" only.
C9_ExpiredAsFailed ==
  \A f \in flows :
    (f.pc = "done" /\ f.how = "timeout") =>
      /\ f.error = "Authorization failed or timed out"
      /\ f.error \notin {"", "Failed to get credentials"}
      /\ f.elapsed >= f.maxWait
      /\ f.token = 0
      /\ ~cache[f.prof] /\ ~credsFile[f.prof]

\* the expiry is reached exactly between two attempts
C9_Witness ==
  \E f \in flows : /\ f.pc = "done" /\ f.how = "timeout"
                   /\ f.elapsed = f.maxWait /\ f.n = 2

\* ------------------------------------------------------- orchestrators
Reported(p) == \E k \in 1..Len(results) : results[k].name = p

\* flows whose device authorization is being polled
Polling == {f \in flows : f.pc \in {"poll", "sleep"}}

\* the profiles some call in flight works on
Working == {profiles[j.idx + 1] : j \in jobs} \cup {f.prof : f \in flows}
             \cup {s.prof : s \in starts}

\* nothing is in flight: the view only changes with the next tick or key
Quiescent == mounted /\ starts = {} /\ flows = {} /\ jobs = {}

\* C2: a device authorization that could not be started (registration or
\* device-code issuance answers without a required field, or throws) ends the
\* login of the pending profile as failed and the orchestrator goes on: while
\* a login is pending in the mounted view, its device authorization is being
\* requested or has been issued.
C2_StartFailureReported ==
  (mounted /\ pendingLogin # null) => (starts # {} \/ deviceAuth # NullAuth)

\* C3: at most one device authorization is polled at a time, and while one is
\* polled no other is requested and no refresh of the polled profile is started.
C3_OneSession ==
  /\ Cardinality(Polling) <= 1
  /\ \A f \in Polling :
       /\ starts = {}
       /\ \A j \in jobs : profiles[j.idx + 1] # f.prof

C5_AllReported ==
  (mode = "refresh" /\ Quiescent) =>
    /\ Len(results) = NumProfiles
    /\ \A k \in 1..NumProfiles : results[k].name = profiles[k]

\* C10: after the stop no token-exchange attempt is made, no further profile
\* is processed and neither the token cache nor the credentials file is
\* written.
C10_StopObserved ==
  [][~mounted =>
       /\ cache' = cache /\ credsFile' = credsFile
       /\ \A f \in flows, g \in flows' :
            (g.id = f.id /\ g.prof = f.prof) => g.n = f.n
       /\ \A j \in jobs' : \E i \in jobs : i.idx = j.idx]_vars

C16_ExchangeErrorDistinct ==
  \A f \in flows :
    f.pc = "done" =>
      /\ f.how = "creds" =>
           /\ f.token > 0
           /\ f.error = "Failed to get credentials"
           /\ f.error # "Authorization failed or timed out"
      /\ f.how \in TerminalErrors \cup {"timeout"} =>
           /\ f.token = 0
           /\ f.error # "" /\ f.error # "Failed to get credentials"

\* the second attempt returns a token, the exchange fails
C16_Witness ==
  \E f \in flows : f.pc = "done" /\ f.how = "creds" /\ f.token = 2

\* C17 as stated: the token is persisted first, then exchanged, and the
\* credentials are written only behind a successful exchange; after an
\* exchange failure the cache holds the new token and the credentials store is
\* unchanged.
C17_SideEffectOrder ==
  \A f \in flows :
    /\ f.pc \in {"poll", "sleep", "save"} => ~cache[f.prof] /\ ~credsFile[f.prof]
    /\ f.pc \in {"creds", "write"} => cache[f.prof] /\ ~credsFile[f.prof]
    /\ (f.pc = "done" /\ f.how = "creds") => cache[f.prof] /\ ~credsFile[f.prof]
    /\ (f.pc = "done" /\ f.how = "ok") => cache[f.prof] /\ credsFile[f.prof]

\* C17 amended: the same order, the cache holding the new token exactly when
\* its write went through (a failed cache write is swallowed and the flow
\* goes on to the exchange).
C17_SideEffectOrderIfSaved ==
  \A f \in flows :
    /\ f.pc \in {"poll", "sleep", "save"} => ~cache[f.prof] /\ ~credsFile[f.prof]
    /\ f.pc \in {"creds", "write"} =>
         /\ f.token > 0
         /\ cache[f.prof] = f.saved /\ ~credsFile[f.prof]
    /\ (f.pc = "done" /\ f.how = "creds") =>
         cache[f.prof] = f.saved /\ ~credsFile[f.prof]
    /\ (f.pc = "done" /\ f.how = "ok") =>
         cache[f.prof] = f.saved /\ credsFile[f.prof]
    /\ (f.pc = "done" /\ f.how \notin {"ok", "creds"}) =>
         ~cache[f.prof] /\ ~credsFile[f.prof]

\* the exchange failed behind a token that was persisted
C17_Witness ==
  \E f \in flows : f.pc = "done" /\ f.how = "creds" /\ f.saved /\ cache[f.prof]

\* the times startDeviceAuthorization and pollForToken compute, for any
\* response of the provider at any moment
InitDefaults ==
  /\ mode = "defaults"
  /\ UiIdle
  /\ OrchIdle
  /\ StoreIdle

NextDefaults ==
  \/ Advance
  \/ \E authResponse \in AuthResponses : CallStartDeviceAuthorization(authResponse)
  \/ \E tokenResponse \in TokenResponses : CallPollForToken(tokenResponse)

DefaultsSpec == InitDefaults /\ [][NextDefaults]_vars

\* ------------------------------------------------------- claims on the files
\* C12: refreshProfile on a profile for which findCachedToken finds no token
\* reports needsLogin = true and success = false, has made no call but the
\* look-up in the cache (no role-credential call, no write), and has left the
\* credentials file as it was.
C12_NoTokenNeedsLogin ==
  (ret.op = "refreshProfile" /\ ~ret.token.found) =>
    /\ ret.value.success = FALSE
    /\ ret.value.needsLogin = TRUE
    /\ ret.value.calls = <<"findCachedToken">>
    /\ credsText = ret.before

\* refreshProfile has returned for a profile without a token file, in a run
\* where the role-credential call would have delivered credentials
C12_Witness ==
  /\ ret.op = "refreshProfile"
  /\ \E p \in SsoProfiles :
       p.name = ret.profile /\ tokenFiles[CacheFile(p)] = NoFile
  /\ ret.exchange.kind = "credentials"
  /\ ret.before # <<>>

\* C13: findCachedToken does not look at the clock: whenever the file is
\* JSON with an access token and an expiry it returns that token and that
\* expiry, expired or not.  checkTokenStatus and refreshProfile take a found
\* token for invalid exactly when now >= expiresAt, the instant now =
\* expiresAt included: then, and only then, the status is "expired",
\* resp. refreshProfile asks for a login without a role-credential call.
C13_ExpiryAtUse ==
  /\ (ret.op = "findCachedToken" /\ ret.file.kind = "json"
        /\ Truthy(ret.file.data, "accessToken") /\ Truthy(ret.file.data, "expiresAt")) =>
       ret.value = [found |-> TRUE, accessToken |-> ret.file.data.accessToken,
                    expiresAt |-> NewDate(ret.file.data.expiresAt)]
  /\ (ret.op = "checkTokenStatus" /\ ret.token.found) =>
       (ret.value.status = "expired" <=> ret.at >= ret.token.expiresAt)
  /\ (ret.op = "refreshProfile" /\ ret.token.found) =>
       (ret.value.calls = <<"findCachedToken">> <=> ret.at >= ret.token.expiresAt)

\* refreshProfile has returned at the very instant the token it found
\* expires, in a run where the role-credential call would have delivered
C13_Witness ==
  /\ ret.op = "refreshProfile"
  /\ ret.token.found
  /\ ret.token.expiresAt = ret.at
  /\ ret.exchange.kind = "credentials"

\* refreshProfile has returned for a profile whose cached token expires in
\* the future, the role-credential call having delivered credentials
RefreshedWithValidToken ==
  /\ ret.op = "refreshProfile"
  /\ ret.token.found
  /\ ret.token.expiresAt > ret.at
  /\ ret.exchange.kind = "credentials"

\* C14 as stated: after refreshProfile with a token that expires in the
\* future and a role-credential call that succeeds, the result is success and
\* the credentials file read back has a section of the profile's name with
\* exactly the keys aws_access_key_id, aws_secret_access_key and
\* aws_session_token.
C14_ThreeKeys ==
  RefreshedWithValidToken =>
    /\ ret.value.success
    /\ HasSection(ParseIni(credsText), ret.profile)
    /\ Keys(SectionOf(ParseIni(credsText), ret.profile)) =
         {"aws_access_key_id", "aws_secret_access_key", "aws_session_token"}

\* C14, amended: ... the result is success and the section of the profile's
\* name has exactly the keys aws_access_key_id and aws_secret_access_key and,
\* if and only if the role credentials carry a session token,
\* aws_session_token.
C14_KeysWritten ==
  RefreshedWithValidToken =>
    /\ ret.value.success
    /\ HasSection(ParseIni(credsText), ret.profile)
    /\ Keys(SectionOf(ParseIni(credsText), ret.profile)) =
         {"aws_access_key_id", "aws_secret_access_key"}
           \cup (IF Truthy(ret.exchange.credentials, "sessionToken")
                 THEN {"aws_session_token"} ELSE {})

\* such a refreshProfile has returned, for role credentials with a session
\* token and a profile whose section in the file had a key of its own
C14_Witness ==
  /\ RefreshedWithValidToken
  /\ Truthy(ret.exchange.credentials, "sessionToken")
  /\ "region" \in Keys(SectionOf(ParseIni(ret.before), ret.profile))

ProfileOf(name) == CHOOSE p \in SsoProfiles : p.name = name

\* the token findCachedToken is to return for a saved tokenInfo
SavedToken(tokenInfo) ==
  [found |-> TRUE, accessToken |-> tokenInfo.accessToken,
   expiresAt |-> tokenInfo.expiresAt]

\* the file of a profile is the one named by the hash of its session name,
\* if it has one, and of its start URL otherwise, and it holds tokenInfo
KeyedRecordHolds(p, tokenInfo) ==
  LET file == Sha1Hex(IF "ssoSession" \in DOMAIN p THEN p.ssoSession ELSE p.ssoStartUrl) IN
  /\ file \in DOMAIN tokenFiles
  /\ tokenFiles[file] = JsonFile(CacheData(p, tokenInfo))
  /\ \A q \in SsoProfiles :
       ("ssoSession" \in DOMAIN p /\ "ssoSession" \in DOMAIN q
          /\ p.ssoSession = q.ssoSession) =>
         FindCachedToken(q) = SavedToken(tokenInfo)

\* a step changes no file but the one of the key being saved
OnlyKeyedFileChanges ==
  \A file \in CacheFileNames :
    tokenFiles'[file] # tokenFiles[file] =>
      \E w \in writer \cup writer' : file = Sha1Hex(CacheKey(w.profile))

C20_AtomicForReaders ==
  ret.op = "findCachedToken" => ret.file.kind # "partial"

\* ------------------------------------------------------- claims on the config file
\* the names of the profiles made from a sequence of sections
NamesOf(sections) == [i \in 1..Len(sections) |-> ProfileName(sections[i].name)]

\* a section that qualifies by the words of section 4.1
QualifiesAsStated(section, config) ==
  LET values == section.entries
      session == SectionOf(config, SessionSection(ValueOf(values, "sso_session")))
  IN /\ section.name.kind \in {"profile", "default"}
     /\ \/ /\ ValueOf(values, "sso_session") # ""
           /\ ValueOf(session, "sso_start_url") # ""
           /\ ValueOf(session, "sso_region") # ""
           /\ ValueOf(values, "sso_account_id") # ""
           /\ ValueOf(values, "sso_role_name") # ""
        \/ /\ ValueOf(values, "sso_start_url") # ""
           /\ ValueOf(values, "sso_account_id") # ""
           /\ ValueOf(values, "sso_role_name") # ""
           /\ ValueOf(values, "sso_region") # ""

Qualifies(section, config) ==
  LET values == section.entries IN
  /\ section.name.kind \in {"profile", "default"}
  /\ ValueOf(values, "sso_account_id") # ""
  /\ ValueOf(values, "sso_role_name") # ""
  /\ \/ /\ ValueOf(values, "sso_session") # ""
        /\ HasSection(config, SessionSection(ValueOf(values, "sso_session")))
     \/ /\ ValueOf(values, "sso_session") = ""
        /\ ValueOf(values, "sso_start_url") # ""

C22_NeverThrows ==
  [][mounted =>
       /\ \A j \in jobs :
            (j.pc = "write" /\ j \notin jobs') =>
               /\ Len(results') > 0
               /\ results'[Len(results')].name = profiles[j.idx + 1]
       /\ \A f \in flows :
            (f.pc = "write" /\ f \notin flows') =>
               /\ Len(results') > 0
               /\ results'[Len(results')].name = f.prof]_vars

\* the run is complete: RefreshProgress shows "done" (current >=
\* profiles.length && !pendingLogin), DaemonView has set refreshing to false
\* with no login pending; nothing is in flight
RunComplete ==
  /\ Quiescent
  /\ pendingLogin = null
  /\ IF mode = "refresh" THEN current >= NumProfiles ELSE ~refreshing

\* the results reported for profile p
ResultsOf(p) == {k \in 1..Len(results) : results[k].name = p}

\* C23: when a run is complete every selected profile has exactly one
\* reported outcome: the successes and the errors shown add up to the number
\* of selected profiles.
C23_OneOutcomeEach ==
  RunComplete =>
    /\ \A p \in ProfileNames : Cardinality(ResultsOf(p)) = 1
    /\ Cardinality({k \in 1..Len(results) : results[k].success})
         + Cardinality({k \in 1..Len(results) : ~results[k].success}) = NumProfiles

\* ------------------------------------------------------- claims on the defaults
\* C24: a default stands in for a value the provider leaves out, and for
\* no other: a token expires at now + expiresIn whenever expiresIn is given
\* (0 included) and at now + 28800 otherwise; a device authorization expires
\* at now + expiresIn, at now + 600 if expiresIn is left out; the poll
\* interval is the interval given, 5 if it is left out.
C24_DefaultsOnlyIfUnspecified ==
  LET given(field) == field \in DOMAIN ret.response IN
  /\ ret.op = "pollForToken" =>
       ret.value.expiresAt
         = ret.at + (IF given("expiresIn") THEN ret.response.expiresIn ELSE 28800)
  /\ ret.op = "startDeviceAuthorization" =>
       /\ ret.value.expiresAt
            = ret.at + (IF given("expiresIn") THEN ret.response.expiresIn ELSE 600)
       /\ ret.value.interval
            = (IF given("interval") THEN ret.response.interval ELSE 5)

\* ------------------------------------------------------- claims on the sessions
\* C25: the device authorization shown while a profile is the pending login
\* was started for that profile, and so was the one a login flow polls for
\* its profile.
C25_SessionOfPendingProfile ==
  /\ (mounted /\ pendingLogin # null /\ deviceAuth # NullAuth) =>
       deviceAuth.prof = pendingLogin
  /\ \A f \in flows : f.sfor = f.prof

\* --------------------------------------------------------- claims on the loop
\* C26: within one polling session every attempt that the provider answers
\* without ending the session (authorization pending, slow down, or an answer
\* without an access token) is followed by a sleep of at least the poll
\* interval of the session before the next attempt.
C26_SleepBetweenAttempts ==
  \A f \in flows : \A i \in 1..Len(log) :
    PollOutcome(log[i].resp) \in {"retry", "sleep"} => log[i].sleep >= f.interval

\* ------------------------------------------------- claims on the lost updates
\* C27: no credential update is lost: the credentials a writeCredentials has
\* put into the credentials file stay there whatever other write of the
\* program overlaps it.
C27_NoLostUpdate ==
  [][\A p \in ProfileNames : credsFile[p] => credsFile'[p]]_vars

\* ------------------------------------------------------------ List (List.tsx)
\* Math.min, Math.max
MathMin(a, b) == IF a <= b THEN a ELSE b
MathMax(a, b) == IF a >= b THEN a ELSE b

\* the items prop: the items by id, none to MaxItems of them
ItemLists == {[i \in 1..n |-> i] : n \in 0..MaxItems}
\* the maxVisible prop: two short windows, and the default of 10
MaxVisibles == {2, 3, 10}

\* the scrolling effect: setScrollOffset so that the cursor is in the window
HandleScrolling(cursor, scrollOffset, maxVisible) ==
  IF cursor < scrollOffset THEN cursor
  ELSE IF cursor >= scrollOffset + maxVisible THEN cursor - maxVisible + 1
  ELSE scrollOffset

\* the cursor after the setCursor calls of one key, each applied to the
\* result of the one before; the key "home" is key.meta && key.upArrow, the
\* key "end" is key.meta && key.downArrow
ListCursorAfter(l, key) ==
  LET len == Len(l.items)
      c1 == IF key \in {"up", "home", "k"} THEN MathMax(0, l.cursor - 1) ELSE l.cursor
      c2 == IF key \in {"down", "end", "j"} THEN MathMin(len - 1, c1 + 1) ELSE c1
      c3 == IF key = "pageUp" THEN MathMax(0, c2 - l.maxVisible) ELSE c2
      c4 == IF key = "pageDown" THEN MathMin(len - 1, c3 + l.maxVisible) ELSE c3
      c5 == IF key = "home" THEN 0 ELSE c4
  IN IF key = "end" THEN len - 1 ELSE c5

\* useInput's handler on one key (the List has the focus), and the scrolling
\* effect of the render that follows
ListInput(key) ==
  /\ mode = "list"
  /\ ~list.loading
  /\ LET c == ListCursorAfter(list, key)
     IN list' = [list EXCEPT !.cursor = c,
                             !.scrollOffset = HandleScrolling(c, @, list.maxVisible)]
  /\ UNCHANGED <<orch, store, multiSelectList>>

\* the parent renders the List with other items; the effect on items.length,
\* setCursor(prev => min(prev, max(0, length - 1))), runs if the length has
\* changed, then the scrolling effect
ListItemsChange(items) ==
  /\ mode = "list"
  /\ items # list.items
  /\ LET c == IF Len(items) # Len(list.items)
              THEN MathMin(list.cursor, MathMax(0, Len(items) - 1))
              ELSE list.cursor
     IN list' = [list EXCEPT !.items = items, !.cursor = c,
                             !.scrollOffset = HandleScrolling(c, @, list.maxVisible)]
  /\ UNCHANGED <<orch, store, multiSelectList>>

\* the parent starts or ends loading
ListLoadingChange ==
  /\ mode = "list"
  /\ list' = [list EXCEPT !.loading = ~@]
  /\ UNCHANGED <<orch, store, multiSelectList>>

\* a List just mounted: useState(0) twice
InitList ==
  /\ mode = "list"
  /\ OrchIdle
  /\ StoreIdle
  /\ multiSelectList = NoMultiSelectList
  /\ \E items \in ItemLists, maxVisible \in MaxVisibles, loading \in BOOLEAN :
       list = [items |-> items, maxVisible |-> maxVisible, loading |-> loading,
               cursor |-> 0, scrollOffset |-> 0]

NextList ==
  \/ \E key \in {"up", "down", "k", "j", "pageUp", "pageDown", "home", "end"} :
       ListInput(key)
  \/ \E items \in ItemLists : ListItemsChange(items)
  \/ ListLoadingChange

ListSpec == InitList /\ [][NextList]_vars

\* ---------------------------------------------------------- claims on the List
\* C28: after any navigation keys and any changes of the items, the cursor
\* of the List is at least 0 and at most max(0, items.length - 1), the empty
\* list included.
C28_CursorInRange ==
  mode = "list" =>
    /\ 0 <= list.cursor
    /\ list.cursor <= MathMax(0, Len(list.items) - 1)

\* ------------------------------------------- MultiSelectList (Spinner.tsx)
\* the ids initialSelected may hold: those of the items, and one of no item
\* (a favourite profile that is no longer configured)
SelectableIds == 1..(MaxItems + 1)

\* items.map((i) => i.id)
ItemIds(items) == {items[i] : i \in 1..Len(items)}

\* the a key: none if selected.size === items.length, all otherwise
SelectAllOrNone(selected, items) ==
  IF Cardinality(selected) = Len(items) THEN {} ELSE ItemIds(items)

\* useInput's handler on one key (the MultiSelectList has the focus), and
\* the scrolling effect of the render that follows; the space key drops the
\* id under the cursor from the set if it is there and adds it if it is not
MultiSelectInput(key) ==
  /\ mode = "multi"
  /\ LET m == multiSelectList
         len == Len(m.items)
         c1 == IF key \in {"up", "k"} THEN MathMax(0, m.cursor - 1) ELSE m.cursor
         c2 == IF key \in {"down", "j"} THEN MathMin(len - 1, c1 + 1) ELSE c1
         id == m.items[m.cursor + 1]
         s1 == IF key = " " /\ m.cursor \in 0..(len - 1)
               THEN IF id \in m.selected THEN m.selected \ {id}
                    ELSE m.selected \cup {id}
               ELSE m.selected
         s2 == IF key = "a" THEN SelectAllOrNone(m.selected, m.items) ELSE s1
     IN multiSelectList' =
          [m EXCEPT !.cursor = c2, !.selected = s2,
                    !.scrollOffset = HandleScrolling(c2, @, m.maxVisible)]
  /\ UNCHANGED <<orch, store, list>>

\* a MultiSelectList just mounted: useState(0), useState(new Set(initialSelected))
InitMultiSelect ==
  /\ mode = "multi"
  /\ OrchIdle
  /\ StoreIdle
  /\ list = NoList
  /\ \E items \in ItemLists, maxVisible \in MaxVisibles,
        initialSelected \in SUBSET SelectableIds :
       multiSelectList = [items |-> items, maxVisible |-> maxVisible, cursor |-> 0,
                          selected |-> initialSelected, scrollOffset |-> 0]

NextMultiSelect == \E key \in {"up", "down", "k", "j", " ", "a"} : MultiSelectInput(key)

MultiSelectSpec == InitMultiSelect /\ [][NextMultiSelect]_vars

\* ----------------------------------------------- claims on the MultiSelectList
\* C29: the a key selects every listed item, unless every listed item is
\* selected already: then it clears the selection; whatever ids
\* initialSelected holds, ids of no listed item included.
C29_SelectAllOrNone ==
  [][MultiSelectInput("a") =>
       multiSelectList'.selected =
         IF ItemIds(multiSelectList.items) \subseteq multiSelectList.selected
         THEN {} ELSE ItemIds(multiSelectList.items)]_vars

\* ------------------------------------------------------- claims on the names
\* C30: the profiles that discoverProfiles returns have pairwise distinct
\* names, whatever the config file holds, a [default] section next to a
\* [profile default] section included.
C30_DistinctNames ==
  ret.op = "discoverProfiles" =>
    \A i, j \in 1..Len(ret.value) :
      i # j => ret.value[i].name # ret.value[j].name
====
